---- MODULE Spec2Model ----
(***************************************************************************)
(* Drift-detection orchestration of amazon-sagemaker-drift-detection:      *)
(*   PipelineGate   = lambda/build/lambda_pipeline_change.py               *)
(*   PipelineRunner = lambda/build/lambda_start_pipeline.py                *)
(* together with the provider resources they act on (the CodePipeline      *)
(* stage transition, the two EventBridge rules, the SageMaker pipeline     *)
(* executions and the CodePipeline jobs) as wired by                       *)
(* infra/build_pipeline_construct.py.                                      *)
(***************************************************************************)
EXTENDS Integers, Sequences, FiniteSets, TLC

VARIABLES
    stageEnabled,   \* inbound transition of CodePipeline stage "Build" is enabled
    stageReason,    \* execution arn quoted in the disable reason, 0 when none
    ruleExists,     \* rule name -> the rule is provisioned in this environment
    ruleEnabled,    \* rule name -> state of the rule is ENABLED
    execs,          \* execution arn -> [status, origin] of the SageMaker pipeline
    bus,            \* status-change events matched by SagemakerPipelineRule, not yet delivered
    gateDups,       \* duplicate deliveries made to PipelineGate so far
    gateLast,       \* the latest PipelineGate invocation: event, provider calls, outcome
    gatePrev,       \* the PipelineGate invocation before the latest one
    jobs,           \* job id -> CodePipeline's record of the job
    pending,        \* PipelineRunner invocations CodePipeline has issued and not yet run
    runnerDups,     \* duplicate PipelineRunner invocations made so far
    runnerLast,     \* the latest PipelineRunner invocation: input, provider calls, outcome
    throttles,      \* attempts of a SageMaker call that the provider throttles before it answers
    reg             \* a ModelRegistry call: its inputs and, once made, its requests and outcome

gateVars   == <<stageEnabled, stageReason, ruleExists, ruleEnabled, gateLast, gatePrev>>
sysVars    == <<execs, bus, gateDups>>
runnerVars == <<jobs, pending, runnerDups, runnerLast>>
otherVars  == <<throttles, reg>>
vars == <<stageEnabled, stageReason, ruleExists, ruleEnabled, execs, bus,
          gateDups, gateLast, gatePrev, jobs, pending, runnerDups, runnerLast,
          throttles, reg>>

(***************************************************************************)
(* Bounds of the model.                                                    *)
(***************************************************************************)
MaxExecs == 2        \* execution arns 1..MaxExecs
NumJobs == 1         \* CodePipeline job ids 1..NumJobs
MaxGateDups == 1     \* duplicate event deliveries
MaxRunnerDups == 1   \* duplicate PipelineRunner invocations

ExecArns == 1..MaxExecs
JobIds == 1..NumJobs

(***************************************************************************)
(* Names and literals of the handlers.                                     *)
(***************************************************************************)
DRIFT_RULE_NAME == "DRIFT_RULE_NAME"
SCHEDULE_RULE_NAME == "SCHEDULE_RULE_NAME"
RuleList == <<DRIFT_RULE_NAME, SCHEDULE_RULE_NAME>>
RuleNames == {DRIFT_RULE_NAME, SCHEDULE_RULE_NAME}
stage_name == "Build"

SmSource == "aws.sagemaker"
SmDetailType == "SageMaker Model Building Pipeline Execution Status Change"

TerminalStatuses == {"Stopped", "Succeeded", "Failed"}
ExecStatuses == {"Executing", "Stopping"} \cup TerminalStatuses
RuleStatuses == {"Executing", "Stopped", "Succeeded", "Failed"}

StatusEvent(status, arn) ==
    [source |-> SmSource, detailType |-> SmDetailType, status |-> status, arn |-> arn]

\* event pattern of SagemakerPipelineRule, whose target is PipelineGate
MatchesGateRule(ev) ==
    /\ ev.source = SmSource
    /\ ev.detailType = SmDetailType
    /\ ev.status \in RuleStatuses

(***************************************************************************)
(* PipelineGate.  A handler run is a fold over a record h:                 *)
(*   stageEnabled, stageReason, ruleEnabled : the provider resources       *)
(*   calls : the provider calls made so far, each with the code it got     *)
(*   exc   : "none", or the kind of exception that is propagating          *)
(* faults is the set of positions (1 = stage call, 2.. = rule calls) at    *)
(* which the provider answers with an error other than rule-not-found.     *)
(***************************************************************************)
NoneExc == "none"

\* events.enable_rule / events.disable_rule as answered by the provider
RuleCallCode(rule_name, fault) ==
    IF ~ruleExists[rule_name] THEN "ResourceNotFoundException"
    ELSE IF fault THEN "InternalException"
    ELSE "ok"

\* variant: a rule that is not found raises like any other error
update_cloudwatch_rule_raises_not_found(h, rule_name, enable, fault) ==
    LET code == RuleCallCode(rule_name, fault)
        h1 == [h EXCEPT !.calls = Append(@,
                  [api |-> IF enable THEN "enable_rule" ELSE "disable_rule",
                   name |-> rule_name, reason |-> <<>>, code |-> code])]
    IN  IF code = "ok" THEN [h1 EXCEPT !.ruleEnabled[rule_name] = enable]
        ELSE [h1 EXCEPT !.exc = "Exception"]

\* variant: every error of the rule call is logged and swallowed
update_cloudwatch_rule_swallows_errors(h, rule_name, enable, fault) ==
    LET code == RuleCallCode(rule_name, fault)
        h1 == [h EXCEPT !.calls = Append(@,
                  [api |-> IF enable THEN "enable_rule" ELSE "disable_rule",
                   name |-> rule_name, reason |-> <<>>, code |-> code])]
    IN  IF code = "ok" THEN [h1 EXCEPT !.ruleEnabled[rule_name] = enable]
        ELSE h1

update_cloudwatch_rule(h, rule_name, enable, fault) ==
    LET code == RuleCallCode(rule_name, fault)
        h1 == [h EXCEPT !.calls = Append(@,
                  [api |-> IF enable THEN "enable_rule" ELSE "disable_rule",
                   name |-> rule_name, reason |-> <<>>, code |-> code])]
    IN  IF code = "ok" THEN [h1 EXCEPT !.ruleEnabled[rule_name] = enable]
        ELSE IF code = "ResourceNotFoundException" THEN h1
        ELSE [h1 EXCEPT !.exc = "Exception"]

\* variant: the loop over the rules stops after the first rule
UpdateRulesFrom_first_rule_only(h, i, enable, faults) ==
    IF i > 1 \/ h.exc # NoneExc THEN h
    ELSE update_cloudwatch_rule(h, RuleList[i], enable, (i + 1) \in faults)

\* for rule_name in [DRIFT_RULE_NAME, SCHEDULE_RULE_NAME]: update_cloudwatch_rule(...)
RECURSIVE UpdateRulesFrom(_, _, _, _)
UpdateRulesFrom(h, i, enable, faults) ==
    IF i > Len(RuleList) \/ h.exc # NoneExc THEN h
    ELSE UpdateRulesFrom(update_cloudwatch_rule(h, RuleList[i], enable, (i + 1) \in faults),
                         i + 1, enable, faults)

\* codepipeline.disable_stage_transition / enable_stage_transition
StageTransitionCall(h, enable, reason, fault) ==
    LET code == IF fault THEN "InternalException" ELSE "ok"
        h1 == [h EXCEPT !.calls = Append(@,
                  [api |-> IF enable THEN "enable_stage_transition"
                                     ELSE "disable_stage_transition",
                   name |-> stage_name, reason |-> reason, code |-> code])]
    IN  IF code = "ok"
        THEN [h1 EXCEPT !.stageEnabled = enable,
                        !.stageReason = IF enable THEN 0 ELSE reason[2]]
        ELSE [h1 EXCEPT !.exc = "ClientError"]

DisableReason(pipeline_execution_arn) ==
    <<"Running SageMaker Pipeline Execution: ", pipeline_execution_arn>>

NoRet == [statusCode |-> 0, body |-> {}]

\* variant: the Executing branch disables the rules before the stage transition
update_pipeline_rules_disable_rules_first(h, event, faults) ==
    IF event.status = "Executing"
    THEN LET h1 == UpdateRulesFrom(h, 1, FALSE, faults)
             h2 == IF h1.exc # NoneExc THEN h1
                   ELSE StageTransitionCall(h1, FALSE, DisableReason(event.arn), 1 \in faults)
         IN  IF h2.exc # NoneExc THEN h2
             ELSE [h2 EXCEPT !.ret = [statusCode |-> 200, body |-> {<<"action", "Start">>}]]
    ELSE LET h1 == StageTransitionCall(h, TRUE, <<>>, 1 \in faults)
             h2 == UpdateRulesFrom(h1, 1, TRUE, faults)
         IN  IF h2.exc # NoneExc THEN h2
             ELSE [h2 EXCEPT !.ret = [statusCode |-> 200,
                                      body |-> {<<"action", "Stop">>,
                                                <<"status", event.status>>}]]

\* variant: the other branch enables the rules and leaves the stage transition alone
update_pipeline_rules_enable_rules_only(h, event, faults) ==
    IF event.status = "Executing"
    THEN LET h1 == StageTransitionCall(h, FALSE, DisableReason(event.arn), 1 \in faults)
             h2 == UpdateRulesFrom(h1, 1, FALSE, faults)
         IN  IF h2.exc # NoneExc THEN h2
             ELSE [h2 EXCEPT !.ret = [statusCode |-> 200, body |-> {<<"action", "Start">>}]]
    ELSE LET h2 == UpdateRulesFrom(h, 1, TRUE, faults)
         IN  IF h2.exc # NoneExc THEN h2
             ELSE [h2 EXCEPT !.ret = [statusCode |-> 200,
                                      body |-> {<<"action", "Stop">>,
                                                <<"status", event.status>>}]]

\* variant: an Executing event is refused when the transition is already disabled
update_pipeline_rules_rejects_repeat(h, event, faults) ==
    IF event.status = "Executing"
    THEN IF ~h.stageEnabled THEN [h EXCEPT !.exc = "Exception"]
         ELSE LET h1 == StageTransitionCall(h, FALSE, DisableReason(event.arn), 1 \in faults)
                  h2 == UpdateRulesFrom(h1, 1, FALSE, faults)
              IN  IF h2.exc # NoneExc THEN h2
                  ELSE [h2 EXCEPT !.ret = [statusCode |-> 200,
                                           body |-> {<<"action", "Start">>}]]
    ELSE LET h1 == StageTransitionCall(h, TRUE, <<>>, 1 \in faults)
             h2 == UpdateRulesFrom(h1, 1, TRUE, faults)
         IN  IF h2.exc # NoneExc THEN h2
             ELSE [h2 EXCEPT !.ret = [statusCode |-> 200,
                                      body |-> {<<"action", "Stop">>,
                                                <<"status", event.status>>}]]

update_pipeline_rules(h, event, faults) ==
    LET execution_status == event.status
        pipeline_execution_arn == event.arn
    IN  IF execution_status = "Executing"
        THEN LET h1 == StageTransitionCall(h, FALSE,
                           DisableReason(pipeline_execution_arn), 1 \in faults)
                 h2 == UpdateRulesFrom(h1, 1, FALSE, faults)
             IN  IF h2.exc # NoneExc THEN h2
                 ELSE [h2 EXCEPT !.ret = [statusCode |-> 200,
                                          body |-> {<<"action", "Start">>}]]
        ELSE LET h1 == StageTransitionCall(h, TRUE, <<>>, 1 \in faults)
                 h2 == UpdateRulesFrom(h1, 1, TRUE, faults)
             IN  IF h2.exc # NoneExc THEN h2
                 ELSE [h2 EXCEPT !.ret = [statusCode |-> 200,
                                          body |-> {<<"action", "Stop">>,
                                                    <<"status", execution_status>>}]]

GateStart ==
    [stageEnabled |-> stageEnabled, stageReason |-> stageReason,
     ruleEnabled |-> ruleEnabled, calls |-> <<>>, exc |-> NoneExc, ret |-> NoRet]

\* variant: the event is accepted when its source or its detail-type matches
pipeline_change_handler_either(event, faults) ==
    IF event.source = SmSource \/ event.detailType = SmDetailType
    THEN update_pipeline_rules(GateStart, event, faults)
    ELSE [GateStart EXCEPT !.exc = "Exception"]

\* lambda_handler of lambda_pipeline_change.py: every exception is re-raised
pipeline_change_handler(event, faults) ==
    IF event.source = SmSource /\ event.detailType = SmDetailType
    THEN update_pipeline_rules(GateStart, event, faults)
    ELSE [GateStart EXCEPT !.exc = "Exception"]

\* one invocation of PipelineGate, run to completion
GateRun(event, faults) ==
    \E h \in {pipeline_change_handler(event, faults)} :
        /\ stageEnabled' = h.stageEnabled
        /\ stageReason' = h.stageReason
        /\ ruleEnabled' = h.ruleEnabled
        /\ gateLast' = [event |-> event, calls |-> h.calls,
                        raised |-> h.exc # NoneExc, ret |-> h.ret]
        /\ gatePrev' = gateLast
        /\ UNCHANGED ruleExists

\* the provider fails no call, or fails the call at one position (the run ends there)
FaultSets == {{}} \cup {{i} : i \in 1..(1 + Len(RuleList))}

NoEvent == [source |-> "", detailType |-> "", status |-> "", arn |-> 0]
NoGateLast == [event |-> NoEvent, calls |-> <<>>, raised |-> FALSE, ret |-> NoRet]

(***************************************************************************)
(* The SageMaker pipeline's executions and the CodePipeline jobs, as the   *)
(* provider keeps them.                                                    *)
(***************************************************************************)
NoExec == [status |-> "NotStarted", origin |-> "none", token |-> 0, name |-> 0]
NoJob == [state |-> "NotCreated", terminals |-> 0]

Started(es) == {a \in ExecArns : es[a].status # "NotStarted"}
NonTerminal(es) == {a \in ExecArns : es[a].status \in {"Executing", "Stopping"}}
FreeArns(es) == ExecArns \ Started(es)
NextArn(es) == CHOOSE a \in FreeArns(es) : \A b \in FreeArns(es) : a <= b

\* events SagemakerPipelineRule forwards to PipelineGate for a status change
Emitted(status, arn) ==
    IF MatchesGateRule(StatusEvent(status, arn)) THEN {StatusEvent(status, arn)} ELSE {}

(***************************************************************************)
(* PipelineRunner.  A handler run is a fold over a record r:               *)
(*   execs, jobs : the provider resources                                  *)
(*   rearmed     : invocations CodePipeline will make for accepted re-arms *)
(*   events      : status-change events of executions started by the run   *)
(*   calls       : the provider calls made so far, each with its code      *)
(*   exc         : "none", "ClientError" being handled, or "Unhandled"     *)
(* faults is the set of call positions of the run at which the provider    *)
(* answers with an error that is not about the state of the job.           *)
(***************************************************************************)
NoRunnerRet == [statusCode |-> 0, kind |-> "", message |-> "", status |-> "", arn |-> 0]

ErrorMessage(code) == <<"message of ", code>>

Call(api, kind, message, status, arn, token, code) ==
    [api |-> api, kind |-> kind, message |-> message, status |-> status,
     arn |-> arn, token |-> token, code |-> code]

\* sagemaker.start_pipeline_execution: one execution per ClientRequestToken
SmStart(r, display_name, client_request_token, fault) ==
    IF fault
    THEN [r EXCEPT !.calls = Append(@, Call("start_pipeline_execution", "", <<>>, "",
                                 0, client_request_token, "ThrottlingException")),
                   !.exc = "ClientError", !.code = "ThrottlingException"]
    ELSE LET same == {a \in Started(r.execs) :
                         client_request_token # 0 /\ r.execs[a].token = client_request_token}
             fresh == same = {}
             arn == IF fresh THEN NextArn(r.execs) ELSE CHOOSE a \in same : TRUE
         IN  [r EXCEPT !.calls = Append(@, Call("start_pipeline_execution", "", <<>>, "",
                                     arn, client_request_token, "ok")),
                       !.arn = arn,
                       !.execs[arn] = IF fresh
                                      THEN [status |-> "Executing", origin |-> "CodePipeline",
                                            token |-> client_request_token,
                                            name |-> display_name]
                                      ELSE @,
                       !.events = IF fresh THEN @ \cup Emitted("Executing", arn) ELSE @]

\* sagemaker.describe_pipeline_execution
SmDescribe(r, arn, fault) ==
    IF fault
    THEN [r EXCEPT !.calls = Append(@, Call("describe_pipeline_execution", "", <<>>, "",
                                 arn, 0, "ThrottlingException")),
                   !.exc = "ClientError", !.code = "ThrottlingException"]
    ELSE [r EXCEPT !.calls = Append(@, Call("describe_pipeline_execution", "", <<>>,
                                 r.execs[arn].status, arn, 0, "ok")),
                   !.status = r.execs[arn].status]

\* the code CodePipeline answers a put_job_*_result with
JobCallCode(r, job_id, fault) ==
    IF r.jobs[job_id].state # "InProgress" THEN "InvalidJobStateException"
    ELSE IF fault THEN "ThrottlingException"
    ELSE "ok"

Raise(r, code) ==
    [r EXCEPT !.exc = IF @ = NoneExc THEN "ClientError" ELSE "Unhandled", !.code = code]

\* variant: the re-arm is sent without continuationToken, which resolves the job
PutJobContinue_without_token(r, job_id, arn, fault) ==
    LET code == JobCallCode(r, job_id, fault)
        r1 == [r EXCEPT !.calls = Append(@, Call("put_job_success_result",
                                 "outputVariables", <<>>, "", arn, 0, code))]
    IN  IF code = "ok"
        THEN [r1 EXCEPT !.jobs[job_id] = [state |-> "Succeeded", terminals |-> @.terminals + 1]]
        ELSE Raise(r1, code)

\* codepipeline.put_job_success_result(jobId, continuationToken)
PutJobContinue(r, job_id, arn, fault) ==
    LET code == JobCallCode(r, job_id, fault)
        r1 == [r EXCEPT !.calls = Append(@, Call("put_job_success_result",
                                 "continuationToken", <<>>, "", arn, 0, code))]
    IN  IF code = "ok"
        THEN [r1 EXCEPT !.rearmed = @ \cup {[job |-> job_id, token |-> arn]}]
        ELSE Raise(r1, code)

\* codepipeline.put_job_success_result(jobId, outputVariables)
PutJobSuccess(r, job_id, status, arn, fault) ==
    LET code == JobCallCode(r, job_id, fault)
        r1 == [r EXCEPT !.calls = Append(@, Call("put_job_success_result",
                                 "outputVariables", <<>>, status, arn, 0, code))]
    IN  IF code = "ok"
        THEN [r1 EXCEPT !.jobs[job_id] = [state |-> "Succeeded", terminals |-> @.terminals + 1]]
        ELSE Raise(r1, code)

\* variant: the failure details leave out externalExecutionId
PutJobFailure_no_external_id(r, job_id, message, status, arn, fault) ==
    LET code == JobCallCode(r, job_id, fault)
        r1 == [r EXCEPT !.calls = Append(@, Call("put_job_failure_result",
                                 "JobFailed", message, status, 0, 0, code))]
    IN  IF code = "ok"
        THEN [r1 EXCEPT !.jobs[job_id] = [state |-> "Failed", terminals |-> @.terminals + 1]]
        ELSE Raise(r1, code)

\* codepipeline.put_job_failure_result(jobId, failureDetails)
PutJobFailure(r, job_id, message, status, arn, fault) ==
    LET code == JobCallCode(r, job_id, fault)
        r1 == [r EXCEPT !.calls = Append(@, Call("put_job_failure_result",
                                 "JobFailed", message, status, arn, 0, code))]
    IN  IF code = "ok"
        THEN [r1 EXCEPT !.jobs[job_id] = [state |-> "Failed", terminals |-> @.terminals + 1]]
        ELSE Raise(r1, code)

Return(r, statusCode, kind, message, status, arn) ==
    IF r.exc # NoneExc THEN r
    ELSE [r EXCEPT !.ret = [statusCode |-> statusCode, kind |-> kind, message |-> message,
                            status |-> status, arn |-> arn]]

StatusMessage == <<"Pipeline Status is ">>

\* variant: no return after the terminal reports, so the re-arm below them runs too
CheckPipelineTry_missing_return(r, job_id, pipeline_execution_arn, faults) ==
    IF pipeline_execution_arn = 0
    THEN LET r1 == SmStart(r, job_id, job_id, 1 \in faults)
         IN  IF r1.exc # NoneExc THEN r1
             ELSE Return(PutJobContinue(r1, job_id, r1.arn, 2 \in faults),
                         202, "PipelineExecutionArn", <<>>, "", r1.arn)
    ELSE LET r1 == SmDescribe([r EXCEPT !.arn = pipeline_execution_arn],
                              pipeline_execution_arn, 1 \in faults)
             r2 == IF r1.status \in {"Failed", "Stopped"}
                   THEN PutJobFailure(r1, job_id, StatusMessage, r1.status, r1.arn,
                                      2 \in faults)
                   ELSE IF r1.status \in {"Executing", "Succeeded"}
                   THEN PutJobSuccess(r1, job_id, r1.status, r1.arn, 2 \in faults)
                   ELSE r1
         IN  IF r1.exc # NoneExc THEN r1
             ELSE IF r2.exc # NoneExc THEN r2
             ELSE Return(PutJobContinue(r2, job_id, r2.arn, (Len(r2.calls) + 1) \in faults),
                         202, "PipelineExecutionArn", <<>>, "", r2.arn)

\* variant: start_pipeline_execution is called without the job id as ClientRequestToken
CheckPipelineTry_no_token(r, job_id, pipeline_execution_arn, faults) ==
    IF pipeline_execution_arn = 0
    THEN LET r1 == SmStart(r, job_id, 0, 1 \in faults)
         IN  IF r1.exc # NoneExc THEN r1
             ELSE Return(PutJobContinue(r1, job_id, r1.arn, 2 \in faults),
                         202, "PipelineExecutionArn", <<>>, "", r1.arn)
    ELSE LET r1 == SmDescribe([r EXCEPT !.arn = pipeline_execution_arn],
                              pipeline_execution_arn, 1 \in faults)
         IN  IF r1.exc # NoneExc THEN r1
             ELSE IF r1.status \in {"Failed", "Stopped"}
             THEN Return(PutJobFailure(r1, job_id, StatusMessage, r1.status, r1.arn,
                                       2 \in faults),
                         400, "JobFailed", StatusMessage, r1.status, r1.arn)
             ELSE IF r1.status \in {"Executing", "Succeeded"}
             THEN Return(PutJobSuccess(r1, job_id, r1.status, r1.arn, 2 \in faults),
                         200, "outputVariables", <<>>, r1.status, r1.arn)
             ELSE Return(PutJobContinue(r1, job_id, r1.arn, 2 \in faults),
                         202, "PipelineExecutionArn", <<>>, "", r1.arn)

\* variant: status Stopped is not taken as a failure, so it re-arms
CheckPipelineTry_stopped_rearms(r, job_id, pipeline_execution_arn, faults) ==
    IF pipeline_execution_arn = 0
    THEN LET r1 == SmStart(r, job_id, job_id, 1 \in faults)
         IN  IF r1.exc # NoneExc THEN r1
             ELSE Return(PutJobContinue(r1, job_id, r1.arn, 2 \in faults),
                         202, "PipelineExecutionArn", <<>>, "", r1.arn)
    ELSE LET r1 == SmDescribe([r EXCEPT !.arn = pipeline_execution_arn],
                              pipeline_execution_arn, 1 \in faults)
         IN  IF r1.exc # NoneExc THEN r1
             ELSE IF r1.status \in {"Failed"}
             THEN Return(PutJobFailure(r1, job_id, StatusMessage, r1.status, r1.arn,
                                       2 \in faults),
                         400, "JobFailed", StatusMessage, r1.status, r1.arn)
             ELSE IF r1.status \in {"Executing", "Succeeded"}
             THEN Return(PutJobSuccess(r1, job_id, r1.status, r1.arn, 2 \in faults),
                         200, "outputVariables", <<>>, r1.status, r1.arn)
             ELSE Return(PutJobContinue(r1, job_id, r1.arn, 2 \in faults),
                         202, "PipelineExecutionArn", <<>>, "", r1.arn)

\* variant: only status Succeeded resolves the job as successful, Executing re-arms
CheckPipelineTry_executing_rearms(r, job_id, pipeline_execution_arn, faults) ==
    IF pipeline_execution_arn = 0
    THEN LET r1 == SmStart(r, job_id, job_id, 1 \in faults)
         IN  IF r1.exc # NoneExc THEN r1
             ELSE Return(PutJobContinue(r1, job_id, r1.arn, 2 \in faults),
                         202, "PipelineExecutionArn", <<>>, "", r1.arn)
    ELSE LET r1 == SmDescribe([r EXCEPT !.arn = pipeline_execution_arn],
                              pipeline_execution_arn, 1 \in faults)
         IN  IF r1.exc # NoneExc THEN r1
             ELSE IF r1.status \in {"Failed", "Stopped"}
             THEN Return(PutJobFailure(r1, job_id, StatusMessage, r1.status, r1.arn,
                                       2 \in faults),
                         400, "JobFailed", StatusMessage, r1.status, r1.arn)
             ELSE IF r1.status \in {"Succeeded"}
             THEN Return(PutJobSuccess(r1, job_id, r1.status, r1.arn, 2 \in faults),
                         200, "outputVariables", <<>>, r1.status, r1.arn)
             ELSE Return(PutJobContinue(r1, job_id, r1.arn, 2 \in faults),
                         202, "PipelineExecutionArn", <<>>, "", r1.arn)

\* variant: status Stopping is taken as a failure
CheckPipelineTry_stopping_fails(r, job_id, pipeline_execution_arn, faults) ==
    IF pipeline_execution_arn = 0
    THEN LET r1 == SmStart(r, job_id, job_id, 1 \in faults)
         IN  IF r1.exc # NoneExc THEN r1
             ELSE Return(PutJobContinue(r1, job_id, r1.arn, 2 \in faults),
                         202, "PipelineExecutionArn", <<>>, "", r1.arn)
    ELSE LET r1 == SmDescribe([r EXCEPT !.arn = pipeline_execution_arn],
                              pipeline_execution_arn, 1 \in faults)
         IN  IF r1.exc # NoneExc THEN r1
             ELSE IF r1.status \in {"Failed", "Stopped", "Stopping"}
             THEN Return(PutJobFailure(r1, job_id, StatusMessage, r1.status, r1.arn,
                                       2 \in faults),
                         400, "JobFailed", StatusMessage, r1.status, r1.arn)
             ELSE IF r1.status \in {"Executing", "Succeeded"}
             THEN Return(PutJobSuccess(r1, job_id, r1.status, r1.arn, 2 \in faults),
                         200, "outputVariables", <<>>, r1.status, r1.arn)
             ELSE Return(PutJobContinue(r1, job_id, r1.arn, 2 \in faults),
                         202, "PipelineExecutionArn", <<>>, "", r1.arn)

\* the try block of check_pipeline
CheckPipelineTry(r, job_id, pipeline_execution_arn, faults) ==
    IF pipeline_execution_arn = 0
    THEN LET r1 == SmStart(r, job_id, job_id, 1 \in faults)
         IN  IF r1.exc # NoneExc THEN r1
             ELSE Return(PutJobContinue(r1, job_id, r1.arn, 2 \in faults),
                         202, "PipelineExecutionArn", <<>>, "", r1.arn)
    ELSE LET r1 == SmDescribe([r EXCEPT !.arn = pipeline_execution_arn],
                              pipeline_execution_arn, 1 \in faults)
         IN  IF r1.exc # NoneExc THEN r1
             ELSE IF r1.status \in {"Failed", "Stopped"}
             THEN Return(PutJobFailure(r1, job_id, StatusMessage, r1.status, r1.arn,
                                       2 \in faults),
                         400, "JobFailed", StatusMessage, r1.status, r1.arn)
             ELSE IF r1.status \in {"Executing", "Succeeded"}
             THEN Return(PutJobSuccess(r1, job_id, r1.status, r1.arn, 2 \in faults),
                         200, "outputVariables", <<>>, r1.status, r1.arn)
             ELSE Return(PutJobContinue(r1, job_id, r1.arn, 2 \in faults),
                         202, "PipelineExecutionArn", <<>>, "", r1.arn)

\* variant: the except block returns 500 without reporting to CodePipeline
CheckPipelineExcept_no_report(r, job_id, faults) ==
    Return([r EXCEPT !.exc = NoneExc], 500, "JobFailed", ErrorMessage(r.code), "", 0)

\* variant: the except block raises the error again after the failure report
CheckPipelineExcept_reraises(r, job_id, faults) ==
    LET error_code == r.code
        error_message == ErrorMessage(r.code)
        r1 == IF error_code # "InvalidJobStateException"
              THEN PutJobFailure(r, job_id, error_message, "", 0, (Len(r.calls) + 1) \in faults)
              ELSE r
    IN  IF error_code # "InvalidJobStateException"
        THEN [r1 EXCEPT !.exc = "Unhandled"]
        ELSE Return([r1 EXCEPT !.exc = NoneExc], 500, "JobFailed", error_message, "", 0)

\* the except ClientError block of check_pipeline
CheckPipelineExcept(r, job_id, faults) ==
    LET error_code == r.code
        error_message == ErrorMessage(r.code)
        r1 == IF error_code # "InvalidJobStateException"
              THEN PutJobFailure(r, job_id, error_message, "", 0, (Len(r.calls) + 1) \in faults)
              ELSE r
    IN  IF r1.exc = "Unhandled" THEN r1
        ELSE Return([r1 EXCEPT !.exc = NoneExc], 500, "JobFailed", error_message, "", 0)

check_pipeline(r, job_id, pipeline_execution_arn, faults) ==
    LET r1 == CheckPipelineTry(r, job_id, pipeline_execution_arn, faults)
    IN  IF r1.exc = "ClientError" THEN CheckPipelineExcept(r1, job_id, faults) ELSE r1

RunnerStart ==
    [execs |-> execs, jobs |-> jobs, rearmed |-> {}, events |-> {}, calls |-> <<>>,
     exc |-> NoneExc, code |-> "", arn |-> 0, status |-> "", ret |-> NoRunnerRet]

\* lambda_handler of lambda_start_pipeline.py; token 0 is an absent continuationToken
start_pipeline_handler(job_id, token, faults) ==
    check_pipeline(RunnerStart, job_id, token, faults)

NoRunnerLast ==
    [job |-> 0, token |-> 0, calls |-> <<>>, raised |-> FALSE, ret |-> NoRunnerRet]

\* the provider fails no call; the start or describe call (1), and then perhaps
\* the failure report (2); the report (2), and then perhaps the failure report (3)
RunnerFaultSets == {{}, {1}, {1, 2}, {2}, {2, 3}}

(***************************************************************************)
(* SpecGate: PipelineGate alone, invoked with any event, from any state of *)
(* the stage transition and the rules.                                     *)
(***************************************************************************)
OtherSource == "aws.codecommit"
OtherDetailType == "SageMaker Model Package State Change"

\* the events the handler accepts, and events of another source or detail-type
\* (of which the handler reads neither status nor arn)
WellFormedEvents == {StatusEvent(s, a) : s \in ExecStatuses, a \in ExecArns}
ForeignEvents ==
    [source : {SmSource, OtherSource}, detailType : {SmDetailType, OtherDetailType},
     status : {"Executing", "Succeeded"}, arn : {1}] \ WellFormedEvents
AnyEvents == WellFormedEvents \cup ForeignEvents

\* no ModelRegistry call
NoReg == [op |-> "none", pc |-> "done"]

InitRest ==
    /\ throttles = 0
    /\ reg = NoReg
    /\ execs = [a \in ExecArns |-> NoExec]
    /\ bus = {}
    /\ gateDups = 0
    /\ gatePrev = NoGateLast
    /\ jobs = [j \in JobIds |-> NoJob]
    /\ pending = {}
    /\ runnerDups = 0
    /\ runnerLast = NoRunnerLast

InitGate ==
    /\ stageEnabled \in BOOLEAN
    /\ stageReason = 0
    /\ ruleExists \in [RuleNames -> BOOLEAN]
    /\ ruleEnabled \in [RuleNames -> BOOLEAN]
    /\ \A n \in RuleNames : ruleEnabled[n] => ruleExists[n]
    /\ gateLast = NoGateLast
    /\ InitRest

GateInvoke(event, faults) ==
    /\ GateRun(event, faults)
    /\ UNCHANGED <<sysVars, runnerVars, otherVars>>

NextGate == \E event \in AnyEvents, faults \in FaultSets : GateInvoke(event, faults)

SpecGate == InitGate /\ [][NextGate]_vars

(***************************************************************************)
(* Spec: the deployed system.  The drift and schedule rules start          *)
(* executions while enabled, CodePipeline runs that pass the Build stage   *)
(* hand a job to PipelineRunner, executions change status, and every       *)
(* status change matched by SagemakerPipelineRule is delivered to          *)
(* PipelineGate: in any order, and possibly more than once.  The provider   *)
(* answers every call of this specification without a fault.               *)
(***************************************************************************)
Init ==
    /\ stageEnabled = TRUE
    /\ stageReason = 0
    /\ ruleExists = [n \in RuleNames |-> TRUE]
    /\ ruleEnabled = [n \in RuleNames |-> TRUE]
    /\ gateLast = NoGateLast
    /\ InitRest

\* an enabled rule fires and its target starts an execution of the pipeline
RuleFire(rule_name) ==
    /\ ruleExists[rule_name]
    /\ ruleEnabled[rule_name]
    /\ FreeArns(execs) # {}
    /\ LET arn == NextArn(execs)
       IN  /\ execs' = [execs EXCEPT ![arn] = [status |-> "Executing", origin |-> rule_name,
                                               token |-> 0, name |-> 0]]
           /\ bus' = bus \cup Emitted("Executing", arn)
    /\ UNCHANGED <<gateVars, gateDups, runnerVars, otherVars>>

StatusSteps ==
    {<<"Executing", "Succeeded">>, <<"Executing", "Failed">>,
     <<"Executing", "Stopping">>, <<"Stopping", "Stopped">>}

\* an execution changes status
ExecAdvance(arn, status) ==
    /\ <<execs[arn].status, status>> \in StatusSteps
    /\ execs' = [execs EXCEPT ![arn].status = status]
    /\ bus' = bus \cup Emitted(status, arn)
    /\ UNCHANGED <<gateVars, gateDups, runnerVars, otherVars>>

\* a pending event is delivered; an invocation that raised is retried later
GateDeliver(event, faults) ==
    /\ event \in bus
    /\ GateRun(event, faults)
    /\ bus' = IF gateLast'.raised THEN bus ELSE bus \ {event}
    /\ UNCHANGED <<execs, gateDups, runnerVars, otherVars>>

\* a pending event is delivered and will be delivered again (at-least-once)
GateDuplicate(event, faults) ==
    /\ event \in bus
    /\ gateDups < MaxGateDups
    /\ GateRun(event, faults)
    /\ gateDups' = gateDups + 1
    /\ UNCHANGED <<execs, bus, runnerVars, otherVars>>

\* a CodePipeline run passes the inbound transition of stage Build
CpEnterBuild(job_id) ==
    /\ jobs[job_id].state = "NotCreated"
    /\ stageEnabled
    /\ jobs' = [jobs EXCEPT ![job_id].state = "InBuild"]
    /\ UNCHANGED <<gateVars, sysVars, pending, runnerDups, runnerLast, otherVars>>

\* the run reaches action Start_Pipeline of stage Pipeline: the job is created
CpStartAction(job_id) ==
    /\ jobs[job_id].state = "InBuild"
    /\ jobs' = [jobs EXCEPT ![job_id].state = "InProgress"]
    /\ pending' = pending \cup {[job |-> job_id, token |-> 0]}
    /\ UNCHANGED <<gateVars, sysVars, runnerDups, runnerLast, otherVars>>

\* one invocation of PipelineRunner, run to completion; an invocation that
\* raised, or a duplicated one (keep), stays pending and is made again
RunnerRun(p, faults, keep) ==
    /\ p \in pending
    /\ p.token = 0 => FreeArns(execs) # {}
    /\ \E r \in {start_pipeline_handler(p.job, p.token, faults)} :
           /\ execs' = r.execs
           /\ jobs' = r.jobs
           /\ bus' = bus \cup r.events
           /\ runnerLast' = [job |-> p.job, token |-> p.token, calls |-> r.calls,
                             raised |-> r.exc # NoneExc, ret |-> r.ret]
           /\ pending' = (IF keep \/ r.exc # NoneExc THEN pending ELSE pending \ {p})
                            \cup r.rearmed
    /\ UNCHANGED <<gateVars, gateDups, otherVars>>

\* CodePipeline invokes the handler for a job
RunnerInvoke(p, faults) ==
    /\ RunnerRun(p, faults, FALSE)
    /\ UNCHANGED runnerDups

\* the invocation is made, and will be made again (at-least-once)
RunnerDuplicate(p, faults) ==
    /\ runnerDups < MaxRunnerDups
    /\ RunnerRun(p, faults, TRUE)
    /\ runnerDups' = runnerDups + 1

Payloads == [job : JobIds, token : 0..MaxExecs]
StatusEvents == {StatusEvent(s, a) : s \in RuleStatuses, a \in ExecArns}

Next ==
    \/ \E n \in RuleNames : RuleFire(n)
    \/ \E a \in ExecArns, s \in ExecStatuses : ExecAdvance(a, s)
    \/ \E e \in StatusEvents : GateDeliver(e, {})
    \/ \E e \in StatusEvents : GateDuplicate(e, {})
    \/ \E j \in JobIds : CpEnterBuild(j)
    \/ \E j \in JobIds : CpStartAction(j)
    \/ \E p \in Payloads : RunnerInvoke(p, {})

Spec == Init /\ [][Next]_vars

(***************************************************************************)
(* SpecRunner: PipelineRunner with CodePipeline and the executions it      *)
(* starts; the gate is left open.                                          *)
(***************************************************************************)
NextRunner ==
    \/ \E j \in JobIds : CpEnterBuild(j)
    \/ \E j \in JobIds : CpStartAction(j)
    \/ \E p \in Payloads, f \in RunnerFaultSets : RunnerInvoke(p, f)
    \/ \E p \in Payloads, f \in RunnerFaultSets : RunnerDuplicate(p, f)
    \/ \E a \in ExecArns, s \in ExecStatuses : ExecAdvance(a, s)

SpecRunner == Init /\ [][NextRunner]_vars

(***************************************************************************)
(* Properties of PipelineGate, checked under SpecGate.                     *)
(***************************************************************************)
\* the latest invocation of PipelineGate was for a well-formed event with a status in S
GateHandled(S) ==
    /\ gateLast.event.source = SmSource
    /\ gateLast.event.detailType = SmDetailType
    /\ gateLast.event.status \in S

CallShape(c) == [api |-> c.api, name |-> c.name, reason |-> c.reason]

StageCallShape(enable, reason) ==
    [api |-> IF enable THEN "enable_stage_transition" ELSE "disable_stage_transition",
     name |-> "Build", reason |-> reason]

RuleCallShape(enable, rule_name) ==
    [api |-> IF enable THEN "enable_rule" ELSE "disable_rule",
     name |-> rule_name, reason |-> <<>>]

\* the calls are a prefix of: the stage call, the drift rule call, the schedule rule call;
\* a rule call is made only after the stage call succeeded
StageThenRules(calls, enable, reason) ==
    /\ Len(calls) >= 1
    /\ Len(calls) <= 3
    /\ CallShape(calls[1]) = StageCallShape(enable, reason)
    /\ Len(calls) >= 2 => /\ calls[1].code = "ok"
                          /\ CallShape(calls[2]) = RuleCallShape(enable, DRIFT_RULE_NAME)
    /\ Len(calls) >= 3 => CallShape(calls[3]) = RuleCallShape(enable, SCHEDULE_RULE_NAME)

\* C7: handling an Executing event, PipelineGate first disables the inbound
\* transition of stage Build with a reason that quotes the event's execution
\* arn, only then disables the drift rule and then the schedule rule, and, when
\* no call raised, has made all three calls and returns 200 {action: "Start"}.
C7_ExecutingDisablesStageThenRules ==
    GateHandled({"Executing"}) =>
        /\ StageThenRules(gateLast.calls, FALSE,
                          <<"Running SageMaker Pipeline Execution: ", gateLast.event.arn>>)
        /\ ~gateLast.raised =>
              /\ Len(gateLast.calls) = 3
              /\ gateLast.ret = [statusCode |-> 200, body |-> {<<"action", "Start">>}]

C7_Witness ==
    /\ GateHandled({"Executing"})
    /\ ~gateLast.raised
    /\ \A i \in 1..3 : gateLast.calls[i].code = "ok"
    /\ ~stageEnabled
    /\ stageReason = gateLast.event.arn
    /\ \A n \in RuleNames : ~ruleEnabled[n]

\* C8: handling a Stopped, Succeeded or Failed event, PipelineGate first
\* enables the inbound transition of stage Build, only then enables the drift
\* rule and then the schedule rule, and, when no call raised, has made all
\* three calls and returns 200 {action: "Stop", status: the event's status}.
C8_TerminalEnablesStageThenRules ==
    GateHandled(TerminalStatuses) =>
        /\ StageThenRules(gateLast.calls, TRUE, <<>>)
        /\ ~gateLast.raised =>
              /\ Len(gateLast.calls) = 3
              /\ gateLast.ret = [statusCode |-> 200,
                                 body |-> {<<"action", "Stop">>,
                                           <<"status", gateLast.event.status>>}]

C8_Witness ==
    /\ GateHandled({"Failed"})
    /\ ~gateLast.raised
    /\ \A i \in 1..3 : gateLast.calls[i].code = "ok"
    /\ stageEnabled
    /\ \A n \in RuleNames : ruleEnabled[n]

\* C9: a well-formed event whose status is none of Executing, Stopped,
\* Succeeded, Failed leaves the stage-transition flag and every rule flag as
\* they were.
C9_OtherStatusIsNoOp ==
    [][(/\ gateLast'.event.source = SmSource
        /\ gateLast'.event.detailType = SmDetailType
        /\ gateLast'.event.status \notin {"Executing", "Stopped", "Succeeded", "Failed"})
       => (stageEnabled' = stageEnabled /\ ruleEnabled' = ruleEnabled)]_vars

\* C10: an event whose source is not aws.sagemaker, or whose detail-type is
\* not the pipeline execution status change, makes the handler raise, and no
\* stage-transition or rule call is made for it.
C10_ForeignEventRejected ==
    (/\ gateLast.event # NoEvent
     /\ (gateLast.event.source # SmSource \/ gateLast.event.detailType # SmDetailType))
    => /\ gateLast.raised
       /\ gateLast.calls = <<>>
       /\ gateLast.ret = NoRet

C10_Witness ==
    /\ gateLast.event.source = SmSource
    /\ gateLast.event.detailType = OtherDetailType
    /\ gateLast.event.status = "Executing"
    /\ gateLast.raised
    /\ stageEnabled

\* the codes with which a call did not raise out of update_cloudwatch_rule
Passed == {"ok", "ResourceNotFoundException"}

\* C11: a rule call answered with ResourceNotFoundException does not end the
\* invocation: the rule is not called again, the rule after it is still
\* called (and set when it exists), and an invocation whose calls got no
\* other error makes all three calls, does not raise and returns 200.
C11_RuleNotFoundIsSwallowed ==
    LET cs == gateLast.calls
    IN  GateHandled(ExecStatuses) =>
           /\ \A i \in DOMAIN cs :
                 cs[i].code = "ResourceNotFoundException" =>
                    /\ i >= 2
                    /\ \A k \in DOMAIN cs : k # i => cs[k].name # cs[i].name
                    /\ i = 2 => Len(cs) = 3
                    /\ (i = 2 /\ cs[3].code = "ok") =>
                          ruleEnabled[SCHEDULE_RULE_NAME] = (cs[3].api = "enable_rule")
           /\ (\A i \in DOMAIN cs : cs[i].code \in Passed) =>
                 /\ Len(cs) = 3
                 /\ ~gateLast.raised
                 /\ gateLast.ret.statusCode = 200

\* the drift rule is not provisioned, the schedule rule is
C11_Witness ==
    /\ GateHandled({"Executing"})
    /\ Len(gateLast.calls) = 3
    /\ gateLast.calls[2].code = "ResourceNotFoundException"
    /\ gateLast.calls[3].code = "ok"
    /\ ~gateLast.raised
    /\ gateLast.ret.statusCode = 200
    /\ ~ruleEnabled[SCHEDULE_RULE_NAME]

\* C12: when the stage-transition call or a rule call of an invocation is
\* answered with an error other than rule-not-found, that call is the last
\* call of the invocation, the invocation raises and returns nothing, and the
\* flag the failed call was for and the flag of every rule not yet called are
\* as they were before the invocation.
C12_OtherErrorAborts ==
    [][LET cs == gateLast'.calls
           n == Len(cs)
       IN  (/\ GateHandled(ExecStatuses)'
            /\ \E i \in DOMAIN cs : cs[i].code \notin Passed)
           => /\ cs[n].code \notin Passed
              /\ \A k \in 1..(n - 1) : cs[k].code \in Passed
              /\ gateLast'.raised
              /\ gateLast'.ret = NoRet
              /\ n = 1 => stageEnabled' = stageEnabled
              /\ \A i \in 1..Len(RuleList) :
                    i + 1 >= n => ruleEnabled'[RuleList[i]] = ruleEnabled[RuleList[i]]
      ]_vars

\* the drift rule call fails after the stage transition was disabled
C12_Witness ==
    /\ GateHandled({"Executing"})
    /\ Len(gateLast.calls) = 2
    /\ gateLast.calls[1].code = "ok"
    /\ gateLast.calls[2].code = "InternalException"
    /\ gateLast.raised
    /\ ~stageEnabled
    /\ ruleEnabled[SCHEDULE_RULE_NAME]

\* C13: handling the event that was handled just before (without error) a
\* second time, with no provider error, leaves the stage-transition flag, its
\* reason and every rule flag as the first handling left them, raises no
\* error, and returns what the first handling returned.
C13_IdempotentPerEvent ==
    [][(/\ GateHandled(ExecStatuses)
        /\ ~gateLast.raised
        /\ gateLast'.event = gateLast.event
        /\ gatePrev' = gateLast
        /\ \A i \in DOMAIN gateLast'.calls : gateLast'.calls[i].code \in Passed)
       => /\ stageEnabled' = stageEnabled
          /\ stageReason' = stageReason
          /\ ruleEnabled' = ruleEnabled
          /\ ~gateLast'.raised
          /\ gateLast'.ret = gateLast.ret
      ]_vars

\* the same Executing event handled twice in a row
C13_Witness ==
    /\ GateHandled({"Executing"})
    /\ gatePrev.event = gateLast.event
    /\ ~gatePrev.raised
    /\ ~gateLast.raised
    /\ \A i \in 1..3 : gatePrev.calls[i].code = "ok" /\ gateLast.calls[i].code = "ok"
    /\ ~stageEnabled
    /\ \A n \in RuleNames : ~ruleEnabled[n]

CallShapes(calls) == [i \in DOMAIN calls |-> CallShape(calls[i])]

\* C14: when an Executing event for an execution and then a Succeeded event
\* for the same execution are handled without error, the calls of the two
\* invocations are exactly: disable the stage transition, disable the drift
\* rule, disable the schedule rule, enable the stage transition, enable the
\* drift rule, enable the schedule rule.
C14_OneDisableBatchThenOneEnableBatch ==
    \A a \in ExecArns :
        (/\ gatePrev.event = StatusEvent("Executing", a)
         /\ gateLast.event = StatusEvent("Succeeded", a)
         /\ ~gatePrev.raised
         /\ ~gateLast.raised)
        => CallShapes(gatePrev.calls \o gateLast.calls)
             = << StageCallShape(FALSE, <<"Running SageMaker Pipeline Execution: ", a>>),
                  RuleCallShape(FALSE, DRIFT_RULE_NAME),
                  RuleCallShape(FALSE, SCHEDULE_RULE_NAME),
                  StageCallShape(TRUE, <<>>),
                  RuleCallShape(TRUE, DRIFT_RULE_NAME),
                  RuleCallShape(TRUE, SCHEDULE_RULE_NAME) >>

C14_Witness ==
    /\ gatePrev.event = StatusEvent("Executing", 1)
    /\ gateLast.event = StatusEvent("Succeeded", 1)
    /\ ~gatePrev.raised
    /\ ~gateLast.raised
    /\ \A i \in 1..3 : gatePrev.calls[i].code = "ok" /\ gateLast.calls[i].code = "ok"
    /\ stageEnabled
    /\ \A n \in RuleNames : ruleEnabled[n]

(***************************************************************************)
(* Properties of the gate in the deployed system, checked under Spec.      *)
(***************************************************************************)
\* the stage transition and every provisioned controlled rule are disabled
GateClosed ==
    /\ ~stageEnabled
    /\ \A n \in RuleNames : ruleExists[n] => ~ruleEnabled[n]

\* the stage transition and every provisioned controlled rule are enabled
GateOpen ==
    /\ stageEnabled
    /\ \A n \in RuleNames : ruleExists[n] => ruleEnabled[n]

\* C1: in every reachable state the gate is disabled if and only if some
\* execution of the pipeline is in a non-terminal status.
C1_GateClosedIffExecutionRunning ==
    GateClosed <=> (NonTerminal(execs) # {})

\* C2: no rule-triggered start occurs between the start of an execution and
\* its reaching a terminal status: a step in which the drift or the schedule
\* rule starts an execution begins in a state with no non-terminal execution.
C2_NoRuleStartWhileRunning ==
    [][\A a \in ExecArns :
          (execs[a].status = "NotStarted" /\ execs'[a].origin \in RuleNames)
          => NonTerminal(execs) = {}]_vars

\* C3: once every started execution has reached a terminal status and every
\* status-change event has been handled by PipelineGate, in whatever order or
\* multiplicity the events were delivered, the gate is open again.
C3_GateReopensAfterTerminal ==
    (/\ Started(execs) # {}
     /\ NonTerminal(execs) = {}
     /\ bus = {})
    => GateOpen

(***************************************************************************)
(* LiveRunner: PipelineRunner where CodePipeline goes on invoking the      *)
(* handler for every invocation it has pending (each one exactly once      *)
(* unless it raised), the provider does not fail every such invocation,    *)
(* and an execution that is Stopping reaches Stopped.                      *)
(***************************************************************************)
NextLive ==
    \/ \E j \in JobIds : CpEnterBuild(j)
    \/ \E j \in JobIds : CpStartAction(j)
    \/ \E p \in Payloads, f \in RunnerFaultSets : RunnerInvoke(p, f)
    \/ \E a \in ExecArns, s \in ExecStatuses : ExecAdvance(a, s)

\* the rules may be in any state while a job is handed to PipelineRunner
InitLive ==
    /\ stageEnabled = TRUE
    /\ stageReason = 0
    /\ ruleExists = [n \in RuleNames |-> TRUE]
    /\ ruleEnabled \in [RuleNames -> BOOLEAN]
    /\ gateLast = NoGateLast
    /\ InitRest

LiveRunner ==
    /\ InitLive
    /\ [][NextLive]_vars
    /\ \A p \in Payloads : WF_vars(RunnerInvoke(p, {}))
    /\ \A a \in ExecArns : WF_vars(ExecAdvance(a, "Stopped"))

(***************************************************************************)
(* Properties of PipelineRunner, checked under SpecRunner and LiveRunner.  *)
(***************************************************************************)
IsReport(c) == c.api \in {"put_job_success_result", "put_job_failure_result"}
IsRearm(c) == c.api = "put_job_success_result" /\ c.kind = "continuationToken"
IsTerminal(c) == IsReport(c) /\ ~IsRearm(c)
Accepted(c) == c.code = "ok"
Resolved(j) == jobs[j].state \in {"Succeeded", "Failed"}

\* the round trip: a poll that describes status Succeeded and whose report is
\* accepted makes exactly that one report, a terminal success, and returns 200
SucceededRoundTrip ==
    LET cs == runnerLast.calls
    IN  (/\ runnerLast.token # 0
         /\ Len(cs) >= 2
         /\ cs[1].code = "ok"
         /\ cs[1].status = "Succeeded"
         /\ cs[2].code = "ok")
        => /\ Len(cs) = 2
           /\ cs[2].api = "put_job_success_result"
           /\ IsTerminal(cs[2])
           /\ jobs[runnerLast.job] = [state |-> "Succeeded", terminals |-> 1]
           /\ runnerLast.ret.statusCode = 200

\* a job has at most one terminal report on record, and is resolved exactly
\* when it has one
OneTerminalOnRecord ==
    \A j \in JobIds : /\ jobs[j].terminals <= 1
                      /\ jobs[j].terminals = 1 <=> Resolved(j)

ExecsOfJob(j) ==
    {a \in Started(execs) : execs[a].origin = "CodePipeline" /\ execs[a].name = j}

\* C5: however often PipelineRunner is invoked for a job without a
\* continuation token, at most one execution is started for the job; and such
\* an invocation does not end in an unhandled error unless the provider
\* answered one of its calls with an error other than InvalidJobState.
C5_AtMostOneStartPerJob ==
    /\ \A j \in JobIds : Cardinality(ExecsOfJob(j)) <= 1
    /\ (/\ runnerLast.job # 0
        /\ runnerLast.token = 0
        /\ \A i \in DOMAIN runnerLast.calls :
              runnerLast.calls[i].code \in {"ok", "InvalidJobStateException"})
       => ~runnerLast.raised

\* a second invocation without token, made after the job was resolved
C5_Witness ==
    /\ runnerLast.job # 0
    /\ runnerLast.token = 0
    /\ runnerDups >= 1
    /\ Len(runnerLast.calls) = 2
    /\ runnerLast.calls[1].api = "start_pipeline_execution"
    /\ runnerLast.calls[1].code = "ok"
    /\ runnerLast.calls[2].code = "InvalidJobStateException"
    /\ Resolved(runnerLast.job)
    /\ Cardinality(ExecsOfJob(runnerLast.job)) = 1
    /\ ~runnerLast.raised

\* the latest invocation was made without (FALSE) or with (TRUE) a continuation token
RunnerHandled(with_token) ==
    /\ runnerLast.job # 0
    /\ (runnerLast.token # 0) = with_token

\* the latest invocation had a continuation token and its describe call
\* returned a status in S
Described(S) ==
    /\ RunnerHandled(TRUE)
    /\ runnerLast.calls[1].code = "ok"
    /\ runnerLast.calls[1].status \in S

RunnerRet(statusCode, kind, message, status, arn) ==
    [statusCode |-> statusCode, kind |-> kind, message |-> message,
     status |-> status, arn |-> arn]

\* C15: an invocation without continuation token first calls
\* start_pipeline_execution with ClientRequestToken = job id; the execution it
\* returns carries the job id as token and display name; the next call is the
\* re-arm with the execution's arn as continuation token; when that is
\* accepted the invocation makes no other call and returns 202 with the arn,
\* and unless the re-arm got a provider error other than InvalidJobState the
\* invocation sends no terminal report.
C15_NoTokenStartsAndRearms ==
    LET cs == runnerLast.calls
        job == runnerLast.job
    IN  RunnerHandled(FALSE) =>
           /\ Len(cs) >= 1
           /\ cs[1].api = "start_pipeline_execution"
           /\ cs[1].token = job
           /\ cs[1].code = "ok" =>
                 /\ execs[cs[1].arn].token = job
                 /\ execs[cs[1].arn].name = job
                 /\ execs[cs[1].arn].origin = "CodePipeline"
                 /\ Len(cs) >= 2
                 /\ IsRearm(cs[2])
                 /\ cs[2].arn = cs[1].arn
                 /\ cs[2].code \in {"ok", "InvalidJobStateException"} =>
                       \A i \in DOMAIN cs : ~IsTerminal(cs[i])
                 /\ cs[2].code = "ok" =>
                       /\ Len(cs) = 2
                       /\ ~runnerLast.raised
                       /\ runnerLast.ret
                            = RunnerRet(202, "PipelineExecutionArn", <<>>, "", cs[1].arn)
                       /\ jobs[job].state = "InProgress"

C15_Witness ==
    /\ RunnerHandled(FALSE)
    /\ Len(runnerLast.calls) = 2
    /\ \A i \in 1..2 : runnerLast.calls[i].code = "ok"
    /\ runnerLast.ret.statusCode = 202
    /\ [job |-> runnerLast.job, token |-> runnerLast.calls[1].arn] \in pending
    /\ execs[runnerLast.calls[1].arn].status = "Executing"

\* C16: when the describe call of an invocation with continuation token
\* returns Failed or Stopped, the next call is put_job_failure_result with type
\* JobFailed, message "Pipeline Status is <status>" and the arn as
\* externalExecutionId; no call of the invocation is a re-arm; when the report
\* is accepted the job is failed and the invocation returns 400 with that
\* payload.
C16_FailedOrStoppedReportsFailure ==
    LET cs == runnerLast.calls
    IN  Described({"Failed", "Stopped"}) =>
           /\ Len(cs) >= 2
           /\ cs[2] = Call("put_job_failure_result", "JobFailed", <<"Pipeline Status is ">>,
                           cs[1].status, runnerLast.token, 0, cs[2].code)
           /\ \A i \in DOMAIN cs : ~IsRearm(cs[i])
           /\ cs[2].code = "ok" =>
                 /\ Len(cs) = 2
                 /\ ~runnerLast.raised
                 /\ runnerLast.ret = RunnerRet(400, "JobFailed", <<"Pipeline Status is ">>,
                                               cs[1].status, runnerLast.token)
                 /\ jobs[runnerLast.job].state = "Failed"

C16_Witness ==
    /\ Described({"Failed"})
    /\ Len(runnerLast.calls) = 2
    /\ runnerLast.calls[2].code = "ok"
    /\ runnerLast.ret.statusCode = 400
    /\ jobs[runnerLast.job].state = "Failed"

\* C17: when the describe call of an invocation with continuation token
\* returns Executing or Succeeded, the next call is put_job_success_result with
\* output variables Status and PipelineExecutionArn; no call of the invocation
\* is a re-arm; when the report is accepted the job is succeeded and the
\* invocation returns 200 with those variables.
C17_ExecutingOrSucceededReportsSuccess ==
    LET cs == runnerLast.calls
    IN  Described({"Executing", "Succeeded"}) =>
           /\ Len(cs) >= 2
           /\ cs[2] = Call("put_job_success_result", "outputVariables", <<>>,
                           cs[1].status, runnerLast.token, 0, cs[2].code)
           /\ \A i \in DOMAIN cs : ~IsRearm(cs[i])
           /\ cs[2].code = "ok" =>
                 /\ Len(cs) = 2
                 /\ ~runnerLast.raised
                 /\ runnerLast.ret = RunnerRet(200, "outputVariables", <<>>,
                                               cs[1].status, runnerLast.token)
                 /\ jobs[runnerLast.job].state = "Succeeded"

\* the job is resolved as successful while its execution is still Executing
C17_Witness ==
    /\ Described({"Executing"})
    /\ Len(runnerLast.calls) = 2
    /\ runnerLast.calls[2].code = "ok"
    /\ runnerLast.ret.statusCode = 200
    /\ jobs[runnerLast.job].state = "Succeeded"
    /\ execs[runnerLast.token].status = "Executing"

\* C18: when the describe call of an invocation with continuation token
\* returns a status that is none of Failed, Stopped, Executing, Succeeded, the
\* next call is the re-arm with the arn the invocation was given as
\* continuation token; when it is accepted the invocation makes no other call,
\* returns 202 and leaves the job in progress, and unless the re-arm got a
\* provider error other than InvalidJobState the invocation sends no terminal
\* report.
C18_OtherStatusRearms ==
    LET cs == runnerLast.calls
    IN  Described(ExecStatuses \ {"Failed", "Stopped", "Executing", "Succeeded"}) =>
           /\ Len(cs) >= 2
           /\ cs[2] = Call("put_job_success_result", "continuationToken", <<>>, "",
                           runnerLast.token, 0, cs[2].code)
           /\ cs[2].code \in {"ok", "InvalidJobStateException"} =>
                 \A i \in DOMAIN cs : ~IsTerminal(cs[i])
           /\ cs[2].code = "ok" =>
                 /\ Len(cs) = 2
                 /\ ~runnerLast.raised
                 /\ runnerLast.ret = RunnerRet(202, "PipelineExecutionArn", <<>>, "",
                                               runnerLast.token)
                 /\ jobs[runnerLast.job].state = "InProgress"

C18_Witness ==
    /\ Described({"Stopping"})
    /\ Len(runnerLast.calls) = 2
    /\ runnerLast.calls[2].code = "ok"
    /\ runnerLast.ret.statusCode = 202
    /\ [job |-> runnerLast.job, token |-> runnerLast.token] \in pending
    /\ execs[runnerLast.token].status = "Stopping"

\* some call of the latest invocation got an error
HasError == \E i \in DOMAIN runnerLast.calls : runnerLast.calls[i].code # "ok"

\* the position of the call whose error entered the except block
FirstError ==
    CHOOSE i \in DOMAIN runnerLast.calls :
        /\ runnerLast.calls[i].code # "ok"
        /\ \A k \in 1..(i - 1) : runnerLast.calls[k].code = "ok"

\* the failure report of the except block for the error with this code
ErrorReport(code, answer) ==
    Call("put_job_failure_result", "JobFailed", <<"message of ", code>>, "", 0, 0, answer)

\* C19: when the start or describe call of an invocation gets a provider
\* error, the next and last call of the invocation is put_job_failure_result
\* with type JobFailed and the provider's error message; when the error that
\* enters the except block is InvalidJobStateException, no call follows it
\* and the invocation returns (status 500) instead of raising.
C19_StartOrDescribeErrorIsReported ==
    LET cs == runnerLast.calls
    IN  (runnerLast.job # 0 /\ HasError) =>
           /\ (FirstError = 1 /\ cs[1].code # "InvalidJobStateException") =>
                 /\ cs[1].api \in {"start_pipeline_execution", "describe_pipeline_execution"}
                 /\ Len(cs) = 2
                 /\ cs[2] = ErrorReport(cs[1].code, cs[2].code)
           /\ cs[FirstError].code = "InvalidJobStateException" =>
                 /\ Len(cs) = FirstError
                 /\ ~runnerLast.raised
                 /\ runnerLast.ret.statusCode = 500

\* the describe call fails and the failure report is accepted
C19_Witness ==
    /\ RunnerHandled(TRUE)
    /\ Len(runnerLast.calls) = 2
    /\ runnerLast.calls[1].api = "describe_pipeline_execution"
    /\ runnerLast.calls[1].code = "ThrottlingException"
    /\ runnerLast.calls[2] = ErrorReport("ThrottlingException", "ok")
    /\ jobs[runnerLast.job].state = "Failed"

\* C20, as stated: when a provider call of an invocation fails with an error
\* other than InvalidJobState, the handler reports the job failure and then
\* raises to its invoker; it does not return a response.
C20_OtherErrorIsReraised ==
    LET cs == runnerLast.calls
    IN  (/\ runnerLast.job # 0
         /\ HasError
         /\ cs[FirstError].code # "InvalidJobStateException")
        => /\ Len(cs) = FirstError + 1
           /\ cs[FirstError + 1].api = "put_job_failure_result"
           /\ runnerLast.raised
           /\ runnerLast.ret = NoRunnerRet

\* C20, amended: when a provider call of an invocation fails with an error
\* other than InvalidJobState, the next and last call is one
\* put_job_failure_result with the provider's message; when that report is
\* accepted the job is failed and the handler returns a response with status
\* 500, type JobFailed and the provider's message, and it raises (returning
\* nothing) exactly when the report itself gets an error.
C20_OtherErrorIsReportedAndReturned ==
    LET cs == runnerLast.calls
    IN  (/\ runnerLast.job # 0
         /\ HasError
         /\ cs[FirstError].code # "InvalidJobStateException")
        => /\ Len(cs) = FirstError + 1
           /\ cs[Len(cs)] = ErrorReport(cs[FirstError].code, cs[Len(cs)].code)
           /\ cs[Len(cs)].code = "ok" =>
                 /\ ~runnerLast.raised
                 /\ runnerLast.ret = RunnerRet(500, "JobFailed",
                                               <<"message of ", cs[FirstError].code>>, "", 0)
                 /\ jobs[runnerLast.job].state = "Failed"
           /\ cs[Len(cs)].code # "ok" =>
                 /\ runnerLast.raised
                 /\ runnerLast.ret = NoRunnerRet

\* the re-arm of a start is refused and the failure report is accepted
C20_Witness ==
    /\ RunnerHandled(FALSE)
    /\ Len(runnerLast.calls) = 3
    /\ runnerLast.calls[1].code = "ok"
    /\ runnerLast.calls[2].code = "ThrottlingException"
    /\ runnerLast.calls[3] = ErrorReport("ThrottlingException", "ok")
    /\ ~runnerLast.raised
    /\ runnerLast.ret.statusCode = 500
    /\ jobs[runnerLast.job].state = "Failed"

\* C6: every job handed to PipelineRunner is eventually resolved by a
\* terminal report.
C6_JobEventuallyResolved ==
    \A j \in JobIds : (jobs[j].state = "InProgress") ~> Resolved(j)

C6_Witness ==
    /\ runnerLast.token # 0
    /\ runnerLast.calls[1].status = "Stopped"
    /\ jobs[runnerLast.job] = [state |-> "Failed", terminals |-> 1]


(***************************************************************************)
(* SpecRetry: PipelineRunner behind the retries of its provider clients.   *)
(* The provider throttles the first `throttles` attempts of every          *)
(* SageMaker call and answers the next one; a client makes attempts until  *)
(* one is answered or its budget is spent.                                 *)
(***************************************************************************)
\* Config(retries={"max_attempts": 10, ...}), given to the codepipeline client
max_attempts == 10

\* boto3.client("sagemaker") is created without the Config: the attempts of
\* the library's default retry mode
sm_client_attempts == 5

\* the error a client call ends with after `throttled` throttled attempts
ClientAnswer(attempts, throttled) ==
    IF throttled >= attempts THEN "ThrottlingException" ELSE "ok"

\* the calls of an invocation that end with an error: the SageMaker call
\* (the first call of an invocation) when sm_client gives up
SmFaults ==
    IF ClientAnswer(sm_client_attempts, throttles) = "ok" THEN {} ELSE {1}

RunnerInvokeThrottled(p) == RunnerInvoke(p, SmFaults)

InitRetry ==
    /\ stageEnabled = TRUE
    /\ stageReason = 0
    /\ ruleExists = [n \in RuleNames |-> TRUE]
    /\ ruleEnabled = [n \in RuleNames |-> TRUE]
    /\ gateLast = NoGateLast
    /\ throttles \in 0..max_attempts
    /\ reg = NoReg
    /\ execs = [a \in ExecArns |-> NoExec]
    /\ bus = {}
    /\ gateDups = 0
    /\ gatePrev = NoGateLast
    /\ jobs = [j \in JobIds |-> NoJob]
    /\ pending = {}
    /\ runnerDups = 0
    /\ runnerLast = NoRunnerLast

NextRetry ==
    \/ \E j \in JobIds : CpEnterBuild(j)
    \/ \E j \in JobIds : CpStartAction(j)
    \/ \E p \in Payloads : RunnerInvokeThrottled(p)
    \/ \E a \in ExecArns, s \in ExecStatuses : ExecAdvance(a, s)

SpecRetry == InitRetry /\ [][NextRetry]_vars

\* C21: when the provider throttles fewer attempts of the start call than the
\* retry budget of the provider clients (max_attempts), an invocation without
\* continuation token starts the execution, ends re-armed with the execution's
\* arn as continuation token and sends no job-failure report.
C21_StartThrottledWithinBudgetRearms ==
    LET cs == runnerLast.calls
    IN  (RunnerHandled(FALSE) /\ throttles < max_attempts) =>
           /\ Len(cs) = 2
           /\ cs[1].api = "start_pipeline_execution"
           /\ cs[1].code = "ok"
           /\ IsRearm(cs[2])
           /\ cs[2].arn = cs[1].arn
           /\ \A i \in DOMAIN cs : cs[i].api # "put_job_failure_result"
           /\ runnerLast.ret.statusCode = 202

\* the start call is throttled twice and answered on the third attempt
C21_ThrottledTwiceRearms ==
    /\ RunnerHandled(FALSE)
    /\ throttles = 2
    /\ Len(runnerLast.calls) = 2
    /\ runnerLast.calls[1].code = "ok"
    /\ IsRearm(runnerLast.calls[2])
    /\ runnerLast.ret.statusCode = 202


\* C29: an invocation of PipelineGate for a well-formed event that starts
\* with the stage transition and every provisioned rule in the same state
\* (all enabled or all disabled) ends, whether it returns or raises, with
\* them in the same state.
C29_StageAndRulesStayInStep ==
    [][((GateOpen \/ GateClosed) /\ GateHandled(ExecStatuses)')
       => (GateOpen \/ GateClosed)'
      ]_vars

\* C30: an invocation of PipelineRunner that sends a job-failure report
\* either finds no execution started for the job or had its describe call
\* return Failed or Stopped; an invocation whose start call succeeded sends
\* no job-failure report.
C30_FailureOnlyWithoutRunningExecution ==
    LET cs == runnerLast.calls
    IN  /\ (\E i \in DOMAIN cs : cs[i].api = "put_job_failure_result")
              => \/ ExecsOfJob(runnerLast.job) = {}
                 \/ Described({"Failed", "Stopped"})
        /\ (RunnerHandled(FALSE) /\ Len(cs) >= 1 /\ cs[1].code = "ok")
              => \A i \in DOMAIN cs : cs[i].api # "put_job_failure_result"

(***************************************************************************)
(* ModelRegistry: the queries of the model registry made at synthesis of   *)
(* the deployment and batch pipelines.  SageMaker holds the model packages *)
(* and answers list_model_packages page by page.                           *)
(***************************************************************************)
MaxPackages == 3    \* packages of the requested group in the registry
MaxPages == 2       \* responses the provider cuts short before it sends full pages
MaxVersions == 2    \* length of the version list given to get_versioned_approved_packages
MaxSelect == 3      \* length of the lists given to select_versioned_packages

Min(a, b) == IF a < b THEN a ELSE b

SeqsUpTo(S, n) == UNION {[1..m -> S] : m \in 0..n}

Group == "model-package-group"
OtherGroup == "other-package-group"
ApprovalStatuses == {"Approved", "Rejected"}

\* creation_time_after=None
NoTime == -1
\* a request or a response without NextToken
NoToken == [page |-> 0, offset |-> 0]

\* a ModelPackageSummary; versions of a group are numbered in creation order
Package(group, version, status, time) ==
    [ModelPackageGroupName |-> group, ModelPackageVersion |-> version,
     ModelApprovalStatus |-> status, CreationTime |-> time]

\* the packages of the group with the approval status of each version, most
\* recently created first
GroupPackages(statuses) ==
    [i \in 1..Len(statuses) |->
        LET version == Len(statuses) + 1 - i
        IN  Package(Group, version, statuses[version], version)]

\* the registries: the group's packages, and possibly a newer approved
\* package of another group
Registries ==
    LET own == {GroupPackages(st) : st \in SeqsUpTo(ApprovalStatuses, MaxPackages)}
    IN  own \cup {<<Package(OtherGroup, 1, "Approved", MaxPackages + 1)>> \o r : r \in own}

\* the packages a request selects, in the order of the request's SortBy
\* (CreationTime, descending by default)
Found(registry, args) ==
    LET Selected(p) ==
            /\ p.ModelPackageGroupName = args.ModelPackageGroupName
            /\ p.ModelApprovalStatus = args.ModelApprovalStatus
            /\ args.CreationTimeAfter # NoTime => p.CreationTime > args.CreationTimeAfter
    IN  SelectSeq(registry, Selected)

\* sagemaker.list_model_packages: the page after the request's NextToken, of
\* at most MaxResults packages (of cuts[page] when the provider cuts the page
\* short), with a NextToken when packages or short pages remain
list_model_packages(registry, cuts, args) ==
    LET found == Found(registry, args)
        page == args.NextToken.page + 1
        offset == args.NextToken.offset
        size == IF page <= Len(cuts) THEN Min(cuts[page], args.MaxResults)
                                     ELSE args.MaxResults
        last == Min(Len(found), offset + size)
    IN  [ModelPackageSummaryList |-> SubSeq(found, offset + 1, last),
         NextToken |-> IF last < Len(found) \/ page < Len(cuts)
                       THEN [page |-> page, offset |-> last]
                       ELSE NoToken]

ListArgs(model_package_group_name, max_results, creation_time_after) ==
    [ModelPackageGroupName |-> model_package_group_name,
     ModelApprovalStatus |-> "Approved",
     SortBy |-> "CreationTime",
     MaxResults |-> max_results,
     CreationTimeAfter |-> creation_time_after,
     NextToken |-> NoToken]

\* what a query has requested, received and collected so far
Fetch(args, response, model_packages, requests, responses) ==
    [args |-> args, response |-> response, model_packages |-> model_packages,
     requests |-> requests, responses |-> responses]

FirstFetch(registry, cuts, args) ==
    \* response = self.sm_client.list_model_packages(**args)
    LET response == list_model_packages(registry, cuts, args)
    IN  Fetch(args, response, response.ModelPackageSummaryList, <<args>>, <<response>>)

\* args = {**args, "NextToken": response["NextToken"]}
NextRequest(f) == [f.args EXCEPT !.NextToken = f.response.NextToken]

\* variant: the loop ends at the first empty page
LatestContinues_until_empty_page(f, max_results) ==
    /\ Len(f.model_packages) < max_results
    /\ f.response.NextToken # NoToken
    /\ Len(f.response.ModelPackageSummaryList) > 0

\* while len(model_packages) < max_results and "NextToken" in response
LatestContinues(f, max_results) ==
    /\ Len(f.model_packages) < max_results
    /\ f.response.NextToken # NoToken

RECURSIVE LatestLoop(_, _, _, _)
LatestLoop(registry, cuts, max_results, f) ==
    IF LatestContinues(f, max_results)
    THEN LET args == NextRequest(f)
             response == list_model_packages(registry, cuts, args)
         IN  LatestLoop(registry, cuts, max_results,
                        Fetch(args, response,
                              f.model_packages \o response.ModelPackageSummaryList,
                              Append(f.requests, args), Append(f.responses, response)))
    ELSE f

\* the outcome of a query: the error raised or the packages returned, with
\* the requests made, the responses received and the packages collected
Outcome(raised, packages, f) ==
    [raised |-> raised, packages |-> packages, requests |-> f.requests,
     responses |-> f.responses, model_packages |-> f.model_packages]

\* variant: all the collected packages are returned
LatestSlice_all(model_packages, max_results) == model_packages

\* model_packages[:max_results]
LatestSlice(model_packages, max_results) ==
    SubSeq(model_packages, 1, Min(max_results, Len(model_packages)))

\* variant: an empty result is an error whether or not creation_time_after is given
LatestEmptyIsError_always(model_packages, creation_time_after) ==
    Len(model_packages) = 0

\* if len(model_packages) == 0 and creation_time_after is None
LatestEmptyIsError(model_packages, creation_time_after) ==
    Len(model_packages) = 0 /\ creation_time_after = NoTime

get_latest_approved_packages(registry, cuts, group_name, max_results, creation_time_after) ==
    LET args == ListArgs(group_name, max_results, creation_time_after)
        f == LatestLoop(registry, cuts, max_results, FirstFetch(registry, cuts, args))
    IN  IF LatestEmptyIsError(f.model_packages, creation_time_after)
        THEN Outcome("Exception", <<>>, f)
        ELSE Outcome(NoneExc, LatestSlice(f.model_packages, max_results), f)

\* variant: the packages with one of the versions, in the order of the packages
select_versioned_packages_in_package_order(model_packages, model_package_versions) ==
    LET Listed(p) == \E i \in DOMAIN model_package_versions :
                         p.ModelPackageVersion = model_package_versions[i]
    IN  SelectSeq(model_packages, Listed)

\* for version in model_package_versions:
\*     filtered_packages += [p for p in model_packages if p[...] == version]
RECURSIVE select_versioned_packages(_, _)
select_versioned_packages(model_packages, model_package_versions) ==
    IF model_package_versions = <<>>
    THEN <<>>
    ELSE LET version == Head(model_package_versions)
             HasVersion(p) == p.ModelPackageVersion = version
         IN  SelectSeq(model_packages, HasVersion)
                 \o select_versioned_packages(model_packages, Tail(model_package_versions))

\* max_results = 100
versioned_max_results == 100

\* the elements of a set of versions in the order a loop visits them; the
\* result of get_versioned_approved_packages does not depend on that order
RECURSIVE Ascending(_)
Ascending(S) ==
    IF S = {}
    THEN <<>>
    ELSE LET least == CHOOSE x \in S : \A y \in S : x <= y
         IN  <<least>> \o Ascending(S \ {least})

\* unique_versions = set(model_package_versions)
UniqueVersions(model_package_versions) ==
    Ascending({model_package_versions[i] : i \in DOMAIN model_package_versions})

\* variant: the loop runs until the provider sends no NextToken
VersionedContinues_to_last_page(f, unique_versions) ==
    f.response.NextToken # NoToken

\* while len(model_packages) < len(unique_versions) and "NextToken" in response
VersionedContinues(f, unique_versions) ==
    /\ Len(f.model_packages) < Len(unique_versions)
    /\ f.response.NextToken # NoToken

RECURSIVE VersionedLoop(_, _, _, _)
VersionedLoop(registry, cuts, unique_versions, f) ==
    IF VersionedContinues(f, unique_versions)
    THEN LET args == NextRequest(f)
             response == list_model_packages(registry, cuts, args)
         IN  VersionedLoop(registry, cuts, unique_versions,
                           Fetch(args, response,
                                 f.model_packages
                                     \o select_versioned_packages(
                                            response.ModelPackageSummaryList,
                                            unique_versions),
                                 Append(f.requests, args), Append(f.responses, response)))
    ELSE f

get_versioned_approved_packages(registry, cuts, group_name, model_package_versions) ==
    LET unique_versions == UniqueVersions(model_package_versions)
        args == ListArgs(group_name, versioned_max_results, NoTime)
        first == FirstFetch(registry, cuts, args)
        f == VersionedLoop(registry, cuts, unique_versions,
                           [first EXCEPT !.model_packages =
                                select_versioned_packages(@, unique_versions)])
    IN  IF Len(f.model_packages) = 0
        THEN Outcome("Exception", <<>>, f)
        ELSE Outcome(NoneExc,
                     select_versioned_packages(f.model_packages, model_package_versions),
                     f)

(***************************************************************************)
(* The lineage lookups of the batch pipeline's ModelRegistry.              *)
(***************************************************************************)
MaxArtifacts == 2   \* lineage artifacts the provider holds
MaxSteps == 2       \* steps of the pipeline execution

PackageArn == "model-package-arn"
ExecutionArns == {"execution-a", "execution-b"}
StepNames == {"TrainModel", "BaselineJob"}
JobKinds == {"TrainingJob", "ProcessingJob"}
OutputNames == {"monitoring_output", "other_output"}

\* a lineage artifact (its arn is its position), a step of an execution (its
\* job's name is its position)
Artifacts == [SourceUri : {PackageArn, "other-arn"}, GeneratedBy : ExecutionArns]
Steps == [StepName : StepNames, Job : JobKinds]

Value(v) == [raised |-> NoneExc, value |-> v]
Raises(exc) == [raised |-> exc, value |-> <<>>]

Indices(s) == [i \in DOMAIN s |-> i]

\* sagemaker.list_artifacts(SourceUri=...)["ArtifactSummaries"], as artifact arns
list_artifacts(artifacts, source_uri) ==
    LET Sourced(i) == artifacts[i].SourceUri = source_uri
    IN  SelectSeq(Indices(artifacts), Sourced)

\* list_artifacts(...)["ArtifactSummaries"][0]["ArtifactArn"], then
\* describe_artifact(...)["MetadataProperties"]["GeneratedBy"]; an error of
\* the provider is not caught
get_pipeline_execution_arn(artifacts, fault, model_package_arn) ==
    IF fault THEN Raises("ClientError")
    ELSE LET summaries == list_artifacts(artifacts, model_package_arn)
         IN  IF summaries = <<>> THEN Raises("IndexError")
             ELSE Value(artifacts[summaries[1]].GeneratedBy)

\* [s["Metadata"][kind]["Arn"] for s in steps if s["StepName"] == step_name][0]
StepJob(steps, step_name, kind) ==
    LET Named(i) == steps[i].StepName = step_name
        named == SelectSeq(Indices(steps), Named)
    IN  IF \E k \in DOMAIN named : steps[named[k]].Job # kind THEN Raises("KeyError")
        ELSE IF named = <<>> THEN Raises("IndexError")
        ELSE Value(named[1])

\* describe_training_job(...)["ModelArtifacts"]["S3ModelArtifacts"]
get_model_artifact(steps, fault, step_name) ==
    IF fault THEN Raises("ClientError")
    ELSE LET job == StepJob(steps, step_name, "TrainingJob")
         IN  IF job.raised # NoneExc THEN job
             ELSE Value(<<"S3ModelArtifacts", job.value>>)

\* [o["S3Output"]["S3Uri"] for o in outputs if o["OutputName"] == output_name][0]
get_processing_output(steps, outputs, fault, step_name, output_name) ==
    IF fault THEN Raises("ClientError")
    ELSE LET job == StepJob(steps, step_name, "ProcessingJob")
             Named(i) == outputs[i] = output_name
             named == SelectSeq(Indices(outputs), Named)
         IN  IF job.raised # NoneExc THEN job
             ELSE IF named = <<>> THEN Raises("IndexError")
             ELSE Value(<<"S3Uri", job.value, outputs[named[1]]>>)

(***************************************************************************)
(* SpecRegistry: one query of the registry.  The initial state holds the   *)
(* contents of the registry, the way the provider pages them and the       *)
(* arguments of the query; the action makes the query and keeps what it    *)
(* requested and what it returned or raised.                               *)
(***************************************************************************)
NoOut == [raised |-> NoneExc]

\* a page cut short is empty or holds one package
ShortPages == {0, 1}

Cuts == SeqsUpTo(ShortPages, MaxPages)
Versions == 1..MaxPackages

LatestInputs ==
    [registry : Registries, cuts : Cuts, max_results : 1..MaxPackages,
     creation_time_after : {NoTime} \cup (0..MaxPackages)]

VersionedInputs ==
    [registry : Registries, cuts : Cuts,
     model_package_versions : SeqsUpTo(Versions, MaxVersions)]

\* lists of packages of the group with distinct versions, in any order
PackageLists ==
    {ps \in SeqsUpTo({Package(Group, v, "Approved", v) : v \in Versions}, MaxSelect) :
        \A i, j \in DOMAIN ps : i # j => ps[i] # ps[j]}

SelectInputs ==
    [model_packages : PackageLists,
     model_package_versions : SeqsUpTo(Versions, MaxSelect)]

ArtifactInputs == [artifacts : SeqsUpTo(Artifacts, MaxArtifacts), fault : BOOLEAN]

StepInputs == [steps : SeqsUpTo(Steps, MaxSteps), fault : BOOLEAN]

OutputInputs ==
    [steps : SeqsUpTo(Steps, MaxSteps), fault : BOOLEAN,
     outputs : {<<>>, <<"monitoring_output">>, <<"other_output", "monitoring_output">>}]

RegCalls(op, inputs) == {[op |-> op, pc |-> "call", in |-> i, out |-> NoOut] : i \in inputs}

InitRegistry ==
    /\ stageEnabled = TRUE
    /\ stageReason = 0
    /\ ruleExists = [n \in RuleNames |-> TRUE]
    /\ ruleEnabled = [n \in RuleNames |-> TRUE]
    /\ gateLast = NoGateLast
    /\ throttles = 0
    /\ reg \in RegCalls("get_latest_approved_packages", LatestInputs)
               \cup RegCalls("get_versioned_approved_packages", VersionedInputs)
               \cup RegCalls("select_versioned_packages", SelectInputs)
               \cup RegCalls("get_pipeline_execution_arn", ArtifactInputs)
               \cup RegCalls("get_model_artifact", StepInputs)
               \cup RegCalls("get_processing_output", OutputInputs)
    /\ execs = [a \in ExecArns |-> NoExec]
    /\ bus = {}
    /\ gateDups = 0
    /\ gatePrev = NoGateLast
    /\ jobs = [j \in JobIds |-> NoJob]
    /\ pending = {}
    /\ runnerDups = 0
    /\ runnerLast = NoRunnerLast

RegDone(op, out) ==
    /\ reg.pc = "call"
    /\ reg.op = op
    /\ reg' = [reg EXCEPT !.pc = "done", !.out = out]
    /\ UNCHANGED <<gateVars, sysVars, runnerVars, throttles>>

GetLatestApprovedPackages ==
    /\ reg.op = "get_latest_approved_packages"
    /\ \E out \in {get_latest_approved_packages(reg.in.registry, reg.in.cuts, Group,
                       reg.in.max_results, reg.in.creation_time_after)} :
           RegDone("get_latest_approved_packages", out)

GetVersionedApprovedPackages ==
    /\ reg.op = "get_versioned_approved_packages"
    /\ \E out \in {get_versioned_approved_packages(reg.in.registry, reg.in.cuts, Group,
                       reg.in.model_package_versions)} :
           RegDone("get_versioned_approved_packages", out)

SelectVersionedPackages ==
    /\ reg.op = "select_versioned_packages"
    /\ \E packages \in {select_versioned_packages(reg.in.model_packages,
                            reg.in.model_package_versions)} :
           RegDone("select_versioned_packages",
                   [raised |-> NoneExc, packages |-> packages])

GetPipelineExecutionArn ==
    /\ reg.op = "get_pipeline_execution_arn"
    /\ \E out \in {get_pipeline_execution_arn(reg.in.artifacts, reg.in.fault, PackageArn)} :
           RegDone("get_pipeline_execution_arn", out)

GetModelArtifact ==
    /\ reg.op = "get_model_artifact"
    /\ \E out \in {get_model_artifact(reg.in.steps, reg.in.fault, "TrainModel")} :
           RegDone("get_model_artifact", out)

GetProcessingOutput ==
    /\ reg.op = "get_processing_output"
    /\ \E out \in {get_processing_output(reg.in.steps, reg.in.outputs, reg.in.fault,
                                          "BaselineJob", "monitoring_output")} :
           RegDone("get_processing_output", out)

NextRegistry ==
    \/ GetLatestApprovedPackages
    \/ GetVersionedApprovedPackages
    \/ SelectVersionedPackages
    \/ GetPipelineExecutionArn
    \/ GetModelArtifact
    \/ GetProcessingOutput

SpecRegistry == InitRegistry /\ [][NextRegistry]_vars

(***************************************************************************)
(* Properties of ModelRegistry, checked under SpecRegistry.                *)
(***************************************************************************)
\* the query op has been made
Queried(op) == reg.op = op /\ reg.pc = "done"

Returned(op) == Queried(op) /\ reg.out.raised = NoneExc

\* the first request of the query in reg
FirstArgs ==
    IF reg.op = "get_latest_approved_packages"
    THEN ListArgs(Group, reg.in.max_results, reg.in.creation_time_after)
    ELSE ListArgs(Group, versioned_max_results, NoTime)

\* the approved packages of the group (created after creation_time_after, when given)
Approved == Found(reg.in.registry, FirstArgs)

\* the pages of the first n responses, concatenated
RECURSIVE PagesUpTo(_, _)
PagesUpTo(responses, n) ==
    IF n = 0 THEN <<>>
    ELSE PagesUpTo(responses, n - 1) \o responses[n].ModelPackageSummaryList

Prefix(s, n) == SubSeq(s, 1, Min(n, Len(s)))

V(version) == Package(Group, version, "Approved", version)

\* C22: get_latest_approved_packages with max_results = k returns at most k
\* packages, each an approved package of the requested group, in descending
\* order of creation time: the first k packages of the fetched pages in fetch
\* order, which are the k most recent approved packages of the group.
C22_LatestReturnsFirstK ==
    Returned("get_latest_approved_packages") =>
        LET packages == reg.out.packages
            k == reg.in.max_results
        IN  /\ Len(packages) <= k
            /\ \A i \in DOMAIN packages :
                  /\ packages[i].ModelApprovalStatus = "Approved"
                  /\ packages[i].ModelPackageGroupName = Group
            /\ \A i, j \in DOMAIN packages :
                  i < j => packages[i].CreationTime > packages[j].CreationTime
            /\ packages = Prefix(PagesUpTo(reg.out.responses, Len(reg.out.responses)), k)
            /\ packages = Prefix(Approved, k)

\* v3, v2, v1 arrive as an empty page, [v3] and [v2, v1]; k = 2 gives [v3, v2]
C22_Witness ==
    /\ Returned("get_latest_approved_packages")
    /\ reg.in.max_results = 2
    /\ Len(reg.out.responses) = 3
    /\ reg.out.responses[1].ModelPackageSummaryList = <<>>
    /\ reg.out.responses[2].ModelPackageSummaryList = <<V(3)>>
    /\ reg.out.responses[3].ModelPackageSummaryList = <<V(2), V(1)>>
    /\ reg.out.packages = <<V(3), V(2)>>

\* C23: when the group has no approved package (created after
\* creation_time_after, when given), get_latest_approved_packages raises if
\* creation_time_after was not supplied and returns the empty list without
\* raising if it was; it raises in no other case.
C23_EmptyRaisesOnlyWithoutCreationTime ==
    Queried("get_latest_approved_packages") =>
        /\ (Approved = <<>> /\ reg.in.creation_time_after = NoTime)
              => reg.out.raised = "Exception"
        /\ (Approved = <<>> /\ reg.in.creation_time_after # NoTime)
              => (reg.out.raised = NoneExc /\ reg.out.packages = <<>>)
        /\ Approved # <<>> => reg.out.raised = NoneExc

\* approved packages exist, but none created after creation_time_after
C23_Witness ==
    /\ Returned("get_latest_approved_packages")
    /\ reg.in.creation_time_after # NoTime
    /\ \E i \in DOMAIN reg.in.registry :
          /\ reg.in.registry[i].ModelPackageGroupName = Group
          /\ reg.in.registry[i].ModelApprovalStatus = "Approved"
    /\ Len(reg.out.requests) >= 2
    /\ reg.out.packages = <<>>

\* C24: when get_versioned_approved_packages returns for a list of n
\* requested versions, it returns exactly n packages and the i-th package has
\* the i-th requested version.
C24_VersionedReturnsOnePackagePerVersion ==
    Returned("get_versioned_approved_packages") =>
        LET packages == reg.out.packages
            versions == reg.in.model_package_versions
        IN  /\ Len(packages) = Len(versions)
            /\ \A i \in DOMAIN packages : packages[i].ModelPackageVersion = versions[i]

\* the packages of the first n pages that have a requested version
MatchedUpTo(n) ==
    LET versions == reg.in.model_package_versions
        Requested(p) == \E i \in DOMAIN versions : p.ModelPackageVersion = versions[i]
    IN  SelectSeq(PagesUpTo(reg.out.responses, n), Requested)

Distinct(versions) == Cardinality({versions[i] : i \in DOMAIN versions})

\* request i + 1 repeats the first request with the NextToken of response i
RepeatsWithLatestToken ==
    /\ Len(reg.out.requests) = Len(reg.out.responses)
    /\ \A i \in DOMAIN reg.out.requests :
          reg.out.requests[i]
             = [FirstArgs EXCEPT !.NextToken = IF i = 1 THEN NoToken
                                               ELSE reg.out.responses[i - 1].NextToken]

\* C25: get_versioned_approved_packages requests pages of 100 approved
\* packages of the group; it requests the next page exactly while fewer
\* packages than distinct requested versions are matched and the last
\* response carried a NextToken, so that after the last request every distinct
\* requested version is matched or the response had no NextToken; and it
\* raises exactly when no package with a requested version was matched.
C25_VersionedPagesUntilAllMatched ==
    Queried("get_versioned_approved_packages") =>
        LET n == Len(reg.out.responses)
            distinct == Distinct(reg.in.model_package_versions)
        IN  /\ RepeatsWithLatestToken
            /\ \A i \in DOMAIN reg.out.requests : reg.out.requests[i].MaxResults = 100
            /\ \A i \in 1..(n - 1) :
                  /\ Len(MatchedUpTo(i)) < distinct
                  /\ reg.out.responses[i].NextToken # NoToken
            /\ \/ Len(MatchedUpTo(n)) >= distinct
               \/ reg.out.responses[n].NextToken = NoToken
            /\ (reg.out.raised # NoneExc) = (MatchedUpTo(n) = <<>>)

\* the query stops at a page that matches every requested version although
\* the provider has more pages
C25_Witness ==
    /\ Returned("get_versioned_approved_packages")
    /\ Len(reg.out.responses) = 2
    /\ MatchedUpTo(1) = <<>>
    /\ Len(MatchedUpTo(2)) = Distinct(reg.in.model_package_versions)
    /\ reg.out.responses[2].NextToken # NoToken

\* the positions of the version list whose version some package has
ListedAndHeld(model_packages, versions) ==
    LET Held(i) == \E k \in DOMAIN model_packages :
                       model_packages[k].ModelPackageVersion = versions[i]
    IN  SelectSeq([i \in DOMAIN versions |-> i], Held)

\* C26: select_versioned_packages returns one package for every entry of the
\* version list that some package has, in the order of the version list
\* whatever the order of the packages: a version listed twice yields its
\* package twice.
C26_SelectFollowsVersionList ==
    Queried("select_versioned_packages") =>
        LET packages == reg.out.packages
            versions == reg.in.model_package_versions
            held == ListedAndHeld(reg.in.model_packages, versions)
        IN  /\ Len(packages) = Len(held)
            /\ \A k \in DOMAIN packages :
                  /\ packages[k].ModelPackageVersion = versions[held[k]]
                  /\ \E i \in DOMAIN reg.in.model_packages :
                        reg.in.model_packages[i] = packages[k]

\* packages [v1, v3, v2] with versions [2, 3, 2] give [v2, v3, v2]
C26_Witness ==
    /\ Queried("select_versioned_packages")
    /\ reg.in.model_packages = <<V(1), V(3), V(2)>>
    /\ reg.in.model_package_versions = <<2, 3, 2>>
    /\ reg.out.packages = <<V(2), V(3), V(2)>>

\* C27: every request of get_latest_approved_packages repeats the filters of
\* the first (group, Approved, sort by creation time, MaxResults, and
\* CreationTimeAfter when given) with the NextToken of the latest response;
\* another request is made exactly while fewer than max_results packages are
\* collected and the latest response carried a NextToken, empty pages
\* included, so that after the last request max_results packages are
\* collected or the response had no NextToken.
C27_LatestRepeatsFiltersWithLatestToken ==
    Queried("get_latest_approved_packages") =>
        LET n == Len(reg.out.responses)
            k == reg.in.max_results
        IN  /\ RepeatsWithLatestToken
            /\ \A i \in 1..(n - 1) :
                  /\ Len(PagesUpTo(reg.out.responses, i)) < k
                  /\ reg.out.responses[i].NextToken # NoToken
            /\ \/ Len(PagesUpTo(reg.out.responses, n)) >= k
               \/ reg.out.responses[n].NextToken = NoToken

\* three requests with CreationTimeAfter, the second answered with an empty page
C27_Witness ==
    /\ Returned("get_latest_approved_packages")
    /\ reg.in.creation_time_after # NoTime
    /\ Len(reg.out.requests) = 3
    /\ reg.out.responses[1].ModelPackageSummaryList # <<>>
    /\ reg.out.responses[2].ModelPackageSummaryList = <<>>
    /\ reg.out.requests[3].NextToken = reg.out.responses[2].NextToken
    /\ reg.out.requests[3].NextToken # reg.out.requests[2].NextToken
    /\ reg.out.requests[3].CreationTimeAfter = reg.in.creation_time_after
    /\ Len(reg.out.packages) = reg.in.max_results

\* C28: a lineage lookup raises nothing but the errors of the taxonomy:
\* get_pipeline_execution_arn raises LineageNotFoundError when no artifact has
\* the package arn as source URI, get_model_artifact and
\* get_processing_output raise StepNotFoundError when no step of the
\* execution has the step name.
C28_LineageLookupsRaiseTaxonomyErrors ==
    /\ Queried("get_pipeline_execution_arn") =>
          /\ reg.out.raised \in {NoneExc, "LineageNotFoundError"}
          /\ (\A i \in DOMAIN reg.in.artifacts : reg.in.artifacts[i].SourceUri # PackageArn)
                => reg.out.raised = "LineageNotFoundError"
    /\ Queried("get_model_artifact") =>
          /\ reg.out.raised \in {NoneExc, "StepNotFoundError"}
          /\ (\A i \in DOMAIN reg.in.steps : reg.in.steps[i].StepName # "TrainModel")
                => reg.out.raised = "StepNotFoundError"
    /\ Queried("get_processing_output") =>
          /\ reg.out.raised \in {NoneExc, "StepNotFoundError"}
          /\ (\A i \in DOMAIN reg.in.steps : reg.in.steps[i].StepName # "BaselineJob")
                => reg.out.raised = "StepNotFoundError"


====
